---- MODULE Spec2Model ----
(***************************************************************************)
(* Model of the sample categorization and summarization engine of          *)
(* src/src/common/profile-categories.js, and of the call-tree filter       *)
(* codec, the ThreadStackGraph draw scheduling                             *)
(* (src/src/content/call-tree-filters.js) and the callTreeFilters reducer  *)
(* (src/src/content/reducers/url-state.js).  Each part has a specification *)
(* of its own over the same variables; the variables of the other parts    *)
(* keep their initial values.                                              *)
(*                                                                         *)
(* JavaScript values are encoded as follows.  Strings are TLA+ strings.    *)
(* Arrays indexed from 0 (the profile's tables) are functions on 0..n-1;   *)
(* arrays that the code builds (rows, category lists) are sequences.       *)
(* A category value is a string; the JavaScript values null and false,     *)
(* which the code stores in the same places as category strings, are the   *)
(* reserved strings JsNull and JsFalse (no label contains '<').  A null    *)
(* table index is the reserved integer nullIndex.  A Map is a function     *)
(* whose DOMAIN is the set of keys that were set.  undefined is            *)
(* JsUndefined (undefinedIndex where an index is read), and an exception   *)
(* that leaves a call is the value JsTypeError returned through the        *)
(* callers, none of which catches it.                                      *)
(***************************************************************************)
EXTENDS Integers, Sequences, FiniteSets, TLC

VARIABLES
    profile,             \* the profile: a function 0..n-1 -> thread
    cache,               \* per classifier instance: functionNameCategorizer's Map
    stackCategoryCache,  \* per classifier instance: sampleCategorizer's Map
    computeCalls,        \* per classifier instance: the calls of computeCategory
    returned,            \* the last call made and the value it returned
    threadCategories,    \* categorizeThreadData's result, per thread done
    summaries,           \* summarizeCategories' result, per thread
    rollingSummaries,    \* calculateRollingSummaries' result, per thread
    graph,               \* a ThreadStackGraph component and its window
    urlState             \* the callTreeFilters reducer's store

rollingVars == <<rollingSummaries>>
contentVars == <<graph, urlState>>

vars == <<profile, cache, stackCategoryCache, computeCalls, returned,
          threadCategories, summaries,
          rollingSummaries, graph, urlState>>

----------------------------------------------------------------------------
(* JavaScript values *)

JsNull == "<null>"
JsFalse == "<false>"
nullIndex == -2
noStack == -1

EmptyMap == [k \in {} |-> JsNull]

(* undefined as a string value and as a table index, and the TypeError a   *)
(* method call on undefined throws.                                        *)
JsUndefined == "<undefined>"
undefinedIndex == -3
JsTypeError == "<TypeError>"

(* array[index]: undefined when the array has no such element. *)
elementOf(array, index, undefined) ==
    IF index \in DOMAIN array THEN array[index] ELSE undefined

Min(S) == CHOOSE x \in S : \A y \in S : x <= y

----------------------------------------------------------------------------
(* String.prototype methods used by the code *)

startsWith(symbol, pattern) ==
    /\ Len(pattern) <= Len(symbol)
    /\ SubSeq(symbol, 1, Len(pattern)) = pattern

endsWith(symbol, pattern) ==
    /\ Len(pattern) <= Len(symbol)
    /\ SubSeq(symbol, Len(symbol) - Len(pattern) + 1, Len(symbol)) = pattern

includes(symbol, pattern) ==
    \E i \in 1..(Len(symbol) - Len(pattern) + 1) :
        SubSeq(symbol, i, i + Len(pattern) - 1) = pattern

----------------------------------------------------------------------------
(* The matching strategies and the rule table *)

matchStemAsPrefix(strategy, symbol, pattern) ==
    CASE strategy = "exact" -> symbol = pattern
      [] strategy = "prefix" -> startsWith(symbol, pattern)
      [] strategy = "substring" -> includes(symbol, pattern)
      [] strategy = "stem" -> startsWith(symbol, pattern)
      [] strategy = "ignore" -> FALSE

match(strategy, symbol, pattern) ==
    CASE strategy = "exact" -> symbol = pattern
      [] strategy = "prefix" -> startsWith(symbol, pattern)
      [] strategy = "substring" -> includes(symbol, pattern)
      [] strategy = "stem" ->
            symbol = pattern \/ startsWith(symbol, pattern \o "(")
      [] strategy = "ignore" -> FALSE

categories == <<
    <<"ignore", "", "content_script">>,
    <<"stem", "mozilla::ipc::MessageChannel::WaitForSyncNotify", "sync_ipc">>,
    <<"stem", "mozilla::ipc::MessageChannel::WaitForInterruptNotify", "sync_ipc">>,
    <<"prefix", "mozilla::places::", "places">>,
    <<"prefix", "mozilla::plugins::", "plugins">>,
    <<"stem", "js::RunScript", "script">>,
    <<"stem", "js::Nursery::collect", "GC">>,
    <<"stem", "js::GCRuntime::collect", "GC">>,
    <<"stem", "nsJSContext::GarbageCollectNow", "GC">>,
    <<"prefix", "mozilla::RestyleManager::", "restyle">>,
    <<"substring", "RestyleManager", "restyle">>,
    <<"stem", "mozilla::PresShell::ProcessReflowCommands", "layout">>,
    <<"prefix", "nsCSSFrameConstructor::", "frameconstruction">>,
    <<"stem", "mozilla::PresShell::DoReflow", "layout">>,
    <<"substring", "::compileScript(", "script">>,
    <<"prefix", "nsCycleCollector", "CC">>,
    <<"prefix", "nsPurpleBuffer", "CC">>,
    <<"substring", "pthread_mutex_lock", "wait">>,
    <<"prefix", "nsRefreshDriver::IsWaitingForPaint", "paint">>,
    <<"stem", "mozilla::PresShell::Paint", "paint">>,
    <<"prefix", "__poll", "wait">>,
    <<"prefix", "__pthread_cond_wait", "wait">>,
    <<"stem", "mozilla::PresShell::DoUpdateApproximateFrameVisibility", "layout">>,
    <<"substring", "mozilla::net::", "network">>,
    <<"stem", "nsInputStreamReadyEvent::Run", "network">>,
    <<"stem", "nsJSUtil::EvaluateString", "script">>,
    <<"prefix", "js::frontend::Parser", "script.parse">>,
    <<"prefix", "js::jit::IonCompile", "script.compile.ion">>,
    <<"prefix", "js::jit::BaselineCompiler::compile", "script.compile.baseline">>,
    <<"prefix", "CompositorBridgeParent::Composite", "paint">>,
    <<"prefix", "mozilla::layers::PLayerTransactionParent::Read(", "messageread">>,
    <<"prefix", "mozilla::dom::", "dom">>,
    <<"prefix", "nsDOMCSSDeclaration::", "restyle">>,
    <<"prefix", "nsHTMLDNS", "network">>,
    <<"substring", "IC::update(", "script.icupdate">>,
    <<"prefix", "js::jit::CodeGenerator::link(", "script.link">>,
    <<"exact", "base::WaitableEvent::Wait()", "idle">>,
    <<"exact", "mach_msg_trap", "wait">>,
    <<"prefix", "Interpret(", "script.execute.interpreter">>
>>

(* symbol.startsWith and symbol.includes throw when symbol is undefined;   *)
(* exact and ignore do not touch the symbol, and stem compares it first.   *)
matchThrows(strategy, symbol) ==
    symbol = JsUndefined /\ strategy \in {"prefix", "substring", "stem"}

(* The for-of loop of functionNameToCategory from rule i on: the category  *)
(* of the first rule that matches, false when the loop runs off the end,   *)
(* the TypeError when a rule's strategy throws.                            *)
RECURSIVE scanCategories(_, _)
scanCategories(name, i) ==
    IF i > Len(categories) THEN JsFalse
    ELSE IF matchThrows(categories[i][1], name) THEN JsTypeError
    ELSE IF match(categories[i][1], name, categories[i][2])
         THEN categories[i][3]
         ELSE scanCategories(name, i + 1)

(* thread.stringTable._array: function names of each kind (a wait         *)
(* primitive, a name no rule matches, a paint function, a parser           *)
(* function), then category labels for a precomputed category column.      *)
strings == <<"__poll", "main", "mozilla::PresShell::Paint(nsView*)",
             "js::frontend::Parser::parse", "network", "script.link",
             "script", "dom", "GC">>

(* thread.funcTable.name: the string index of each function's name. *)
funcNames == <<2, 0, 3, 1>>

(* Function names handed to the function-name classifier alone. *)
FunctionNames ==
    {"", "main", "__poll", "mozilla::PresShell::Paint",
     "mozilla::PresShell::Paint(nsView*)", "mozilla::PresShell::PaintAll",
     "mozilla::dom::mozilla::net::Get", "base::WaitableEvent::Wait()x"}

(* The loop's result for every name that occurs, computed once. *)
loopResult ==
    [name \in {strings[i] : i \in 1..Len(strings)} \cup FunctionNames
                 \cup {JsUndefined} |->
        scanCategories(name, 1)]

(* functionNameToCategory on the Map c: the value returned and the Map     *)
(* after the call; a throw leaves the loop before any cache.set.           *)
functionNameToCategory(c, name) ==
    IF name \in DOMAIN c
    THEN [value |-> c[name], cache |-> c]
    ELSE LET category == loopResult[name]
         IN IF category = JsTypeError
            THEN [value |-> JsTypeError, cache |-> c]
            ELSE [value |-> category, cache |-> c @@ (name :> category)]

----------------------------------------------------------------------------
(* The recursive stack classifier of sampleCategorizer.  st is the state   *)
(* of one classifier instance, [cache, stackCategoryCache]; every operator *)
(* yields the value returned together with the two Maps after the call.    *)

Returning(value, st) ==
    [value |-> value, cache |-> st.cache,
     stackCategoryCache |-> st.stackCategoryCache, calls |-> st.calls]

(* One more call of computeCategory on stackIndex. *)
called(calls, stackIndex) ==
    IF stackIndex \in DOMAIN calls
    THEN [calls EXCEPT ![stackIndex] = @ + 1]
    ELSE calls @@ (stackIndex :> 1)

(* The branch of computeCategory for a frame classified 'wait': the label  *)
(* made of the caller's category.                                          *)
waitCategoryNoDedup(prefixCategory) ==
    IF prefixCategory = JsNull \/ prefixCategory = "uncategorized"
    THEN "wait"
    ELSE prefixCategory \o ".wait"

waitCategoryNoEndsWith(prefixCategory) ==
    IF prefixCategory = JsNull \/ prefixCategory = "uncategorized"
    THEN "wait"
    ELSE IF prefixCategory = "wait"
         THEN prefixCategory
         ELSE prefixCategory \o ".wait"

waitCategory(prefixCategory) ==
    IF prefixCategory = JsNull \/ prefixCategory = "uncategorized"
    THEN "wait"
    ELSE IF endsWith(prefixCategory, ".wait") \/ prefixCategory = "wait"
         THEN prefixCategory
         ELSE prefixCategory \o ".wait"

RECURSIVE computeCategory(_, _, _)
RECURSIVE categorizeSampleStack(_, _, _)

computeCategoryReturnsFalse(thread, st, stackIndex) ==
    IF stackIndex = noStack THEN Returning(JsNull, st)
    ELSE
      LET funcIndex == thread.stackTable.func[stackIndex]
          name == thread.stringTable[thread.funcTable.name[funcIndex]]
          own == functionNameToCategory(st.cache, name)
          category == own.value
          st1 == [st EXCEPT !.cache = own.cache,
                            !.calls = called(@, stackIndex)]
      IN
        IF category # "wait"
        THEN Returning(category, st1)
        ELSE
          LET pre == categorizeSampleStack(thread, st1,
                                           thread.stackTable.prefix[stackIndex])
          IN Returning(waitCategory(pre.value), pre)

computeCategory(thread, st, stackIndex) ==
    IF stackIndex = noStack
    THEN Returning(JsNull, [st EXCEPT !.calls = called(@, stackIndex)])
    ELSE
      LET funcIndex == elementOf(thread.stackTable.func, stackIndex, undefinedIndex)
          name == elementOf(thread.stringTable,
                            elementOf(thread.funcTable.name, funcIndex,
                                      undefinedIndex),
                            JsUndefined)
          own == functionNameToCategory(st.cache, name)
          category == own.value
          st1 == [st EXCEPT !.cache = own.cache,
                            !.calls = called(@, stackIndex)]
      IN
        IF category = JsTypeError
        THEN Returning(JsTypeError, st1)
        ELSE IF category # JsFalse /\ category # "wait"
        THEN Returning(category, st1)
        ELSE
          LET pre == categorizeSampleStack(thread, st1,
                         elementOf(thread.stackTable.prefix, stackIndex,
                                   undefinedIndex))
              prefixCategory == pre.value
          IN
            IF prefixCategory = JsTypeError
            THEN Returning(JsTypeError, pre)
            ELSE IF category = "wait"
            THEN Returning(waitCategory(prefixCategory), pre)
            ELSE Returning(prefixCategory, pre)

categorizeSampleStackByFunc(thread, st, stackIndex) ==
    IF stackIndex = noStack \/ stackIndex = nullIndex
    THEN Returning(JsNull, st)
    ELSE LET key == thread.stackTable.func[stackIndex]
         IN IF key \in DOMAIN st.stackCategoryCache
            THEN Returning(st.stackCategoryCache[key], st)
            ELSE
              LET r == computeCategory(thread, st, stackIndex)
              IN [r EXCEPT !.stackCategoryCache = @ @@ (key :> r.value)]

categorizeSampleStackIfTruthy(thread, st, stackIndex) ==
    IF stackIndex = noStack \/ stackIndex = nullIndex
           \/ stackIndex = undefinedIndex
    THEN Returning(JsNull, st)
    ELSE IF /\ stackIndex \in DOMAIN st.stackCategoryCache
            /\ st.stackCategoryCache[stackIndex] # JsNull
         THEN Returning(st.stackCategoryCache[stackIndex], st)
         ELSE
           LET r == computeCategory(thread, st, stackIndex)
           IN IF r.value = JsTypeError
              THEN r
              ELSE [r EXCEPT !.stackCategoryCache =
                                 [k \in DOMAIN @ \cup {stackIndex} |->
                                     IF k = stackIndex THEN r.value ELSE @[k]]]

(* stackIndex == null holds of null and of undefined; a throw of           *)
(* computeCategory leaves before stackCategoryCache.set.                   *)
categorizeSampleStack(thread, st, stackIndex) ==
    IF stackIndex = noStack \/ stackIndex = nullIndex
           \/ stackIndex = undefinedIndex
    THEN Returning(JsNull, st)
    ELSE IF stackIndex \in DOMAIN st.stackCategoryCache
         THEN Returning(st.stackCategoryCache[stackIndex], st)
         ELSE
           LET r == computeCategory(thread, st, stackIndex)
           IN IF r.value = JsTypeError
              THEN r
              ELSE [r EXCEPT !.stackCategoryCache = @ @@ (stackIndex :> r.value)]

sampleCategorizerNoColumn(thread, st, sampleIndex) ==
    categorizeSampleStack(thread, st, thread.sampleTable.stack[sampleIndex])

(* The function sampleCategorizer(thread) returns, applied to sampleIndex. *)
sampleCategorizer(thread, st, sampleIndex) ==
    IF thread.sampleTable.hasCategory
    THEN LET category == thread.sampleTable.category[sampleIndex]
         IN Returning(IF category = nullIndex THEN JsNull
                      ELSE thread.stringTable[category], st)
    ELSE categorizeSampleStack(thread, st, thread.sampleTable.stack[sampleIndex])

----------------------------------------------------------------------------
(* Thread categorization: the callback of profile.threads.map in           *)
(* mapProfileToThreadCategories, for one thread.  mapSamples is the inner  *)
(* map over the thread's samples from sample i on, with one categorizer.   *)

RECURSIVE mapSamples(_, _, _, _)
mapSamples(thread, st, i, acc) ==
    IF i \notin DOMAIN thread.sampleTable.stack
    THEN [thrown |-> FALSE, categories |-> acc, st |-> st]
    ELSE LET r == sampleCategorizer(thread, st, i)
         IN IF r.value = JsTypeError
            THEN [thrown |-> TRUE, categories |-> acc, st |-> r]
            ELSE mapSamples(thread, r, i + 1,
                     Append(acc, [category |-> r.value,
                                  hangMs |-> thread.sampleTable.sampleHangMs[i]]))

(* The classifier instance that serves thread t: sampleCategorizer(thread) *)
(* makes the two Maps anew for every thread.                               *)
sharedClassifier(t) == 0

classifierOf(t) == t

----------------------------------------------------------------------------
(* The category summarizer.  An object used as a dictionary (summary) is   *)
(* the sequence of its [category, samples] entries in insertion order,     *)
(* which is the order objectEntries lists them in.                         *)

(* fullCategoryName.split('.') *)
RECURSIVE split(_)
split(str) ==
    LET dots == {i \in 1..Len(str) : SubSeq(str, i, i) = "."}
    IN IF dots = {} THEN <<str>>
       ELSE <<SubSeq(str, 1, Min(dots) - 1)>>
                \o split(SubSeq(str, Min(dots) + 1, Len(str)))

(* categories.join('.') *)
RECURSIVE join(_)
join(parts) ==
    IF Len(parts) = 0 THEN ""
    ELSE IF Len(parts) = 1 THEN parts[1]
    ELSE parts[1] \o "." \o join(Tail(parts))

(* summary[category] = (summary[category] || 0) + hangMs *)
addTo(summary, category, hangMs) ==
    IF \E i \in 1..Len(summary) : summary[i].category = category
    THEN [i \in 1..Len(summary) |->
             IF summary[i].category = category
             THEN [summary[i] EXCEPT !.samples = @ + hangMs]
             ELSE summary[i]]
    ELSE Append(summary, [category |-> category, samples |-> hangMs])

(* The while loop of summarizeSampleCategories. *)
RECURSIVE addPrefixes(_, _, _)
addPrefixes(summary, parts, hangMs) ==
    IF Len(parts) = 0 THEN summary
    ELSE addPrefixes(addTo(summary, join(parts), hangMs),
                     SubSeq(parts, 1, Len(parts) - 1), hangMs)

summarizeSampleCategoriesNoRollUp(summary, datum) ==
    LET fullCategoryName ==
            IF datum.category = JsNull \/ datum.category = ""
            THEN "uncategorized" ELSE datum.category
    IN addTo(summary, fullCategoryName, datum.hangMs)

summarizeSampleCategories(summary, datum) ==
    LET fullCategoryName ==
            IF datum.category = JsNull \/ datum.category = ""
            THEN "uncategorized" ELSE datum.category
    IN addPrefixes(summary, split(fullCategoryName), datum.hangMs)

(* categories.reduce(summarizeSampleCategories, {}) from datum i on *)
RECURSIVE reduceCategories(_, _, _)
reduceCategories(data, i, summary) ==
    IF i > Len(data) THEN summary
    ELSE reduceCategories(data, i + 1, summarizeSampleCategories(summary, data[i]))

(* String.prototype.localeCompare on the characters the labels are made   *)
(* of: the strings are compared by the alphabetical rank of their          *)
(* characters without regard to case (punctuation before digits before     *)
(* letters), a string before its extensions; strings that differ in case   *)
(* only are compared by case, lower first.                                 *)
collationOrder ==
    "_-,;:!?.()0123456789aAbBcCdDeEfFgGhHiIjJkKlLmMnNoOpPqQrRsStTuUvVwWxXyYzZ"

firstLetter == Min({i \in 1..Len(collationOrder) : SubSeq(collationOrder, i, i) = "a"})

(* The weight of every character at level 1 (the letter, whatever its      *)
(* case) and at level 3 (its case).                                        *)
collationWeights ==
    [level \in {1, 3} |->
        [ch \in {SubSeq(collationOrder, i, i) : i \in 1..Len(collationOrder)} |->
            LET pos == Min({i \in 1..Len(collationOrder) :
                               SubSeq(collationOrder, i, i) = ch})
            IN IF pos < firstLetter
               THEN (IF level = 1 THEN pos ELSE 0)
               ELSE IF level = 1 THEN firstLetter + ((pos - firstLetter) \div 2)
                    ELSE (pos - firstLetter) % 2]]

collationWeight(level, ch) == collationWeights[level][ch]

RECURSIVE compareWeights(_, _, _, _)
compareWeights(level, a, b, i) ==
    IF i > Len(a) /\ i > Len(b) THEN 0
    ELSE IF i > Len(a) THEN -1
    ELSE IF i > Len(b) THEN 1
    ELSE LET x == collationWeight(level, SubSeq(a, i, i))
             y == collationWeight(level, SubSeq(b, i, i))
         IN IF x < y THEN -1
            ELSE IF x > y THEN 1
            ELSE compareWeights(level, a, b, i + 1)

localeCompare(a, b) ==
    LET primary == compareWeights(1, a, b, 1)
    IN IF primary # 0 THEN primary ELSE compareWeights(3, a, b, 1)

(* The comparator handed to sort. *)
compareRowsNoTieBreak(a, b) == b.samples - a.samples

compareRows(a, b) ==
    IF a.samples = b.samples
    THEN localeCompare(a.category, b.category)
    ELSE b.samples - a.samples

(* Array.prototype.sort: the rows in the order of the comparator, rows    *)
(* that compare equal in their original order.                             *)
insertRow(sorted, row) ==
    LET after == {i \in 1..Len(sorted) : compareRows(sorted[i], row) > 0}
        pos == IF after = {} THEN Len(sorted) + 1 ELSE Min(after)
    IN SubSeq(sorted, 1, pos - 1) \o <<row>> \o SubSeq(sorted, pos, Len(sorted))

RECURSIVE sort(_, _, _)
sort(rows, i, sorted) ==
    IF i > Len(rows) THEN sorted
    ELSE sort(rows, i + 1, insertRow(sorted, rows[i]))

(* rows.reduce(...): the samples of the rows that are no sub-category. *)
RECURSIVE countAll(_, _)
countAll(rows, i) ==
    IF i > Len(rows) THEN 0
    ELSE rows[i].samples + countAll(rows, i + 1)

RECURSIVE countTopLevel(_, _)
countTopLevel(rows, i) ==
    IF i > Len(rows) THEN 0
    ELSE (IF includes(rows[i].category, ".") THEN 0 ELSE rows[i].samples)
         + countTopLevel(rows, i + 1)

(* samples / sampleCount, kept as the exact fraction: den = 0 is the       *)
(* division by zero (NaN for 0/0).                                         *)
divide(samples, sampleCount) == [num |-> samples, den |-> sampleCount]

calculateSummaryPercentagesOfAll(summary) ==
    LET sampleCount == countAll(summary, 1)
        rows == [i \in 1..Len(summary) |->
                    [category |-> summary[i].category,
                     samples |-> summary[i].samples,
                     percentage |-> divide(summary[i].samples, sampleCount)]]
    IN sort(rows, 1, <<>>)

calculateSummaryPercentages(summary) ==
    LET sampleCount == countTopLevel(summary, 1)
        rows == [i \in 1..Len(summary) |->
                    [category |-> summary[i].category,
                     samples |-> summary[i].samples,
                     percentage |-> divide(summary[i].samples, sampleCount)]]
    IN sort(rows, 1, <<>>)

summarizeCategories(categoriesOfThreads) ==
    [t \in DOMAIN categoriesOfThreads |->
        calculateSummaryPercentages(
            reduceCategories(categoriesOfThreads[t], 1, <<>>))]

----------------------------------------------------------------------------
(* Inputs *)

MaxStack == 3

(* An array literal as a table indexed from 0. *)
Table(seq) == [i \in 0..(Len(seq) - 1) |-> seq[i + 1]]

Funcs == 0..(Len(funcNames) - 1)
StackIndexes == 0..(MaxStack - 1)

(* The prefix columns: a stack's prefix is the root sentinel or a stack    *)
(* listed before it.  Every acyclic table is one of these up to the        *)
(* numbering of its stacks, and the classifier only looks stack indexes    *)
(* up.                                                                     *)
PrefixColumns ==
    {p \in [StackIndexes -> {noStack} \cup StackIndexes] :
        \A k \in StackIndexes : p[k] < k}

NewClassifier ==
    [cache |-> EmptyMap, stackCategoryCache |-> EmptyMap, calls |-> EmptyMap]

(* The state of classifier instance c, and its state after a call. *)
classifier(c) ==
    [cache |-> cache[c], stackCategoryCache |-> stackCategoryCache[c],
     calls |-> computeCalls[c]]

SetClassifier(c, st) ==
    /\ cache' = [cache EXCEPT ![c] = st.cache]
    /\ stackCategoryCache' =
           [stackCategoryCache EXCEPT ![c] = st.stackCategoryCache]
    /\ computeCalls' = [computeCalls EXCEPT ![c] = st.calls]

Idle == [op |-> "none", thread |-> 0, index |-> 0, name |-> "", value |-> JsNull]

(* No component is mounted and no store exists. *)
NoGraph == [mounted |-> FALSE]
NoUrlState == [created |-> FALSE]
NoContent == graph = NoGraph /\ urlState = NoUrlState

----------------------------------------------------------------------------
(* The function-name classifier alone: one instance, any names in any order *)

InitFuncName ==
    /\ profile = <<>>
    /\ cache = (0 :> NewClassifier.cache)
    /\ stackCategoryCache = (0 :> NewClassifier.stackCategoryCache)
    /\ computeCalls = (0 :> NewClassifier.calls)
    /\ returned = Idle
    /\ rollingSummaries = <<>>
    /\ NoContent
    /\ threadCategories = <<>>
    /\ summaries = <<>>

CategorizeFuncName(name) ==
    LET r == functionNameToCategory(cache[0], name)
    IN /\ cache' = [cache EXCEPT ![0] = r.cache]
       /\ returned' = [op |-> "functionNameToCategory", thread |-> 0,
                       index |-> 0, name |-> name, value |-> r.value]
       /\ UNCHANGED <<profile, stackCategoryCache, computeCalls, threadCategories,
                      summaries, rollingVars, contentVars>>

NextFuncName == \E name \in FunctionNames : CategorizeFuncName(name)

SpecFuncName == InitFuncName /\ [][NextFuncName]_vars

----------------------------------------------------------------------------
(* One thread and one classifier instance: the function that               *)
(* sampleCategorizer(thread) returns is called on any samples in any order. *)

(* One sample per stack node in reverse order, then a sample with the      *)
(* no-stack sentinel and a sample with a null stack.                       *)
SamplesOfEveryStack ==
    [i \in 0..(MaxStack + 1) |->
        IF i < MaxStack THEN MaxStack - 1 - i
        ELSE IF i = MaxStack THEN noStack ELSE nullIndex]

(* A precomputed category column: null or the index of a label string. *)
CategoryColumns(samples) == [samples -> {nullIndex, 4, 5}]

Thread(stackTable, stack, sampleHangMs, hasCategory, category) ==
    [stringTable |-> Table(strings),
     funcTable |-> [name |-> Table(funcNames)],
     stackTable |-> stackTable,
     sampleTable |-> [stack |-> stack, sampleHangMs |-> sampleHangMs,
                      hasCategory |-> hasCategory, category |-> category]]

(* A thread categorized by its stacks, any stack table; or a thread with a *)
(* category column, any column.                                            *)
InitClassifier ==
    /\ LET stack == SamplesOfEveryStack
           hangMs == [i \in DOMAIN stack |-> 1]
       IN \/ \E f \in [StackIndexes -> Funcs] :
             \E p \in PrefixColumns :
                profile = (0 :> Thread([func |-> f, prefix |-> p],
                                       stack, hangMs, FALSE, <<>>))
          \/ \E f \in Funcs : \E c \in CategoryColumns(DOMAIN stack) :
                profile = (0 :> Thread([func |-> [k \in StackIndexes |-> f],
                                        prefix |-> [k \in StackIndexes |-> k - 1]],
                                       stack, hangMs, TRUE, c))
    /\ cache = (0 :> NewClassifier.cache)
    /\ stackCategoryCache = (0 :> NewClassifier.stackCategoryCache)
    /\ computeCalls = (0 :> NewClassifier.calls)
    /\ returned = Idle
    /\ rollingSummaries = <<>>
    /\ NoContent
    /\ threadCategories = <<>>
    /\ summaries = <<>>

Categorize(sampleIndex) ==
    LET r == sampleCategorizer(profile[0], classifier(0), sampleIndex)
    IN /\ SetClassifier(0, r)
       /\ returned' = [op |-> "categorizer", thread |-> 0,
                       index |-> sampleIndex, name |-> "", value |-> r.value]
       /\ UNCHANGED <<profile, threadCategories, summaries, rollingVars, contentVars>>

NextClassifier ==
    \E sampleIndex \in DOMAIN profile[0].sampleTable.stack :
        Categorize(sampleIndex)

SpecClassifier == InitClassifier /\ [][NextClassifier]_vars

----------------------------------------------------------------------------
(* What the claims say, stated without the code's operators *)

IsPrefixOf(p, s) == \E n \in 0..Len(s) : SubSeq(s, 1, n) = p

OccursIn(p, s) == \E i \in 1..(Len(s) + 1) : \E j \in (i - 1)..Len(s) : SubSeq(s, i, j) = p

RuleMatches(i, name) ==
    LET strategy == categories[i][1]
        pattern == categories[i][2]
    IN \/ strategy = "exact" /\ name = pattern
       \/ strategy = "prefix" /\ IsPrefixOf(pattern, name)
       \/ strategy = "substring" /\ OccursIn(pattern, name)
       \/ strategy = "stem" /\ (name = pattern \/ IsPrefixOf(pattern \o "(", name))

FirstRuleCategory(name) ==
    LET hits == {i \in 1..Len(categories) : RuleMatches(i, name)}
    IN IF hits = {} THEN JsFalse ELSE categories[Min(hits)][3]

ExpectedOfName == [name \in FunctionNames |-> FirstRuleCategory(name)]

(* The classification of the own function name of each function. *)
OwnOfFunc == [f \in Funcs |-> FirstRuleCategory(strings[funcNames[f + 1] + 1])]

RuleLabels == {categories[i][3] : i \in 1..Len(categories)}

theThread == profile[0]
OwnCategory(k) == OwnOfFunc[theThread.stackTable.func[k]]
PrefixOf(k) == theThread.stackTable.prefix[k]
Cached == stackCategoryCache[0]
RecursivePath == ~theThread.sampleTable.hasCategory

(* The category the classifier holds for a caller: null beyond the root. *)
CategoryOfCaller(k) == IF PrefixOf(k) = noStack THEN JsNull ELSE Cached[PrefixOf(k)]
CallerResolved(k) == PrefixOf(k) = noStack \/ PrefixOf(k) \in DOMAIN Cached

HasSuffix(s, x) == \E n \in 0..Len(s) : SubSeq(s, n + 1, Len(s)) = x

WaitMerged(prefixCategory) ==
    IF prefixCategory = JsNull \/ prefixCategory = "uncategorized" THEN "wait"
    ELSE IF prefixCategory = "wait" \/ HasSuffix(prefixCategory, ".wait")
         THEN prefixCategory
         ELSE prefixCategory \o ".wait"

(* C1: in the recursive path, a stack node whose own function name         *)
(* classifies as 'wait' gets 'wait' when its caller's category is null or  *)
(* 'uncategorized', the caller's category unchanged when that is 'wait' or *)
(* ends in '.wait', and the caller's category followed by '.wait'          *)
(* otherwise; a chain A(wait) <- B(no rule) <- C(paint) gives A            *)
(* 'paint.wait'.                                                           *)
InvC1 ==
    RecursivePath =>
        \A k \in DOMAIN Cached :
            /\ OwnCategory(k) = "wait" =>
                  /\ CallerResolved(k)
                  /\ Cached[k] = WaitMerged(CategoryOfCaller(k))
            /\ ( /\ OwnCategory(k) = "wait"
                 /\ PrefixOf(k) # noStack
                 /\ OwnCategory(PrefixOf(k)) = JsFalse
                 /\ PrefixOf(PrefixOf(k)) # noStack
                 /\ OwnCategory(PrefixOf(PrefixOf(k))) = "paint" )
               => Cached[k] = "paint.wait"

WitC1 ==
    /\ RecursivePath
    /\ \E k \in DOMAIN Cached :
          /\ OwnCategory(k) = "wait"
          /\ PrefixOf(k) # noStack
          /\ OwnCategory(PrefixOf(k)) = JsFalse
          /\ PrefixOf(PrefixOf(k)) # noStack
          /\ OwnCategory(PrefixOf(PrefixOf(k))) = "paint"
          /\ Cached[k] = "paint.wait"

StackOfSample(i) == theThread.sampleTable.stack[i]

theClassifier == classifier(0)

(* C2: in the recursive path, the no-stack sentinel (-1 or null) yields    *)
(* null; a node whose own function name classifies to a concrete category  *)
(* other than 'wait' yields that category whatever its callers are, and    *)
(* its lookup adds no entry for a caller to the stack cache; a node whose   *)
(* name matches no rule yields the category of its caller.                 *)
InvC2 ==
    RecursivePath =>
        /\ ( /\ returned.op = "categorizer"
             /\ StackOfSample(returned.index) \in {noStack, nullIndex} )
           => returned.value = JsNull
        /\ ( /\ returned.op = "categorizer"
             /\ StackOfSample(returned.index) \notin {noStack, nullIndex} )
           => /\ StackOfSample(returned.index) \in DOMAIN Cached
              /\ returned.value = Cached[StackOfSample(returned.index)]
        /\ \A k \in DOMAIN Cached :
            /\ OwnCategory(k) \notin {JsFalse, "wait"} => Cached[k] = OwnCategory(k)
            /\ OwnCategory(k) = JsFalse =>
                  /\ CallerResolved(k)
                  /\ Cached[k] = CategoryOfCaller(k)
        /\ \A i \in DOMAIN theThread.sampleTable.stack :
              LET k == StackOfSample(i)
                  r == sampleCategorizer(theThread, theClassifier, i)
              IN ( /\ k \notin {noStack, nullIndex}
                   /\ k \notin DOMAIN Cached
                   /\ OwnCategory(k) \notin {JsFalse, "wait"} )
                 => /\ r.value = OwnCategory(k)
                    /\ DOMAIN r.stackCategoryCache = DOMAIN Cached \cup {k}

WitC2 ==
    /\ RecursivePath
    /\ returned.op = "categorizer"
    /\ StackOfSample(returned.index) = nullIndex
    /\ \E k \in DOMAIN Cached :
          /\ OwnCategory(k) = JsFalse
          /\ PrefixOf(k) # noStack
          /\ Cached[k] = "script.parse"
    /\ \E k \in DOMAIN Cached :
          /\ OwnCategory(k) = "paint"
          /\ PrefixOf(k) # noStack
          /\ OwnCategory(PrefixOf(k)) = "script.parse"
          /\ Cached[k] = "paint"

NoEmptyComponent(label) ==
    /\ label # ""
    /\ ~IsPrefixOf(".", label)
    /\ ~HasSuffix(label, ".")
    /\ ~OccursIn("..", label)

(* C3: every value the recursive classifier returns or holds is null, a    *)
(* label of the rule table, 'wait', or a rule-table label followed by one  *)
(* '.wait'; none has an empty dot-separated component, none contains       *)
(* '.wait.wait', none is 'uncategorized'.                                  *)
WellFormedLabel(v) ==
    \/ v = JsNull
    \/ /\ \/ v \in RuleLabels
          \/ \E l \in RuleLabels : v = l \o ".wait"
       /\ NoEmptyComponent(v)
       /\ ~OccursIn(".wait.wait", v)
       /\ v # "uncategorized"

(* No label of the rule table has an empty component, ends in '.wait' or   *)
(* is 'uncategorized'.                                                     *)
RuleLabelsWellFormed ==
    \A l \in RuleLabels :
        NoEmptyComponent(l) /\ ~HasSuffix(l, ".wait") /\ l # "uncategorized"

InvC3 ==
    RecursivePath =>
        /\ RuleLabelsWellFormed
        /\ \A k \in DOMAIN Cached : WellFormedLabel(Cached[k])
        /\ returned.op = "categorizer" => WellFormedLabel(returned.value)

WitC3 ==
    /\ RecursivePath
    /\ returned.op = "categorizer"
    /\ returned.value = "script.parse.wait"
    /\ \E k \in DOMAIN Cached :
          /\ OwnCategory(k) = "wait"
          /\ PrefixOf(k) # noStack
          /\ OwnCategory(PrefixOf(k)) = "wait"
          /\ Cached[PrefixOf(k)] = "script.parse.wait"
          /\ Cached[k] = "script.parse.wait"

(* C4: functionNameToCategory returns the category of the first rule, in   *)
(* table order, whose strategy matches the name, and false when no rule    *)
(* matches, on the first call for a name and on every later one.           *)
InvC4 ==
    /\ returned.op = "functionNameToCategory" =>
          returned.value = ExpectedOfName[returned.name]
    /\ \A name \in FunctionNames :
          functionNameToCategory(cache[0], name).value = ExpectedOfName[name]

WitC4 ==
    /\ returned.op = "functionNameToCategory"
    /\ returned.name = "mozilla::dom::mozilla::net::Get"
    /\ returned.value = "network"
    /\ RuleMatches(32, returned.name)
    /\ "mozilla::PresShell::PaintAll" \in DOMAIN cache[0]
    /\ cache[0]["mozilla::PresShell::PaintAll"] = JsFalse
    /\ "mozilla::PresShell::Paint(nsView*)" \in DOMAIN cache[0]
    /\ cache[0]["mozilla::PresShell::Paint(nsView*)"] = "paint"

(* The recursive computation without any cache, on the tables of one      *)
(* thread.                                                                 *)
OwnOfName ==
    [name \in {strings[i] : i \in 1..Len(strings)} |-> FirstRuleCategory(name)]

OwnCategoryIn(thread, k) ==
    OwnOfName[thread.stringTable[thread.funcTable.name[thread.stackTable.func[k]]]]

RECURSIVE UnmemoizedIn(_, _)
UnmemoizedIn(thread, k) ==
    IF k = noStack \/ k = nullIndex THEN JsNull
    ELSE IF OwnCategoryIn(thread, k) \notin {JsFalse, "wait"}
         THEN OwnCategoryIn(thread, k)
    ELSE IF OwnCategoryIn(thread, k) = "wait"
         THEN WaitMerged(UnmemoizedIn(thread, thread.stackTable.prefix[k]))
    ELSE UnmemoizedIn(thread, thread.stackTable.prefix[k])

Unmemoized(k) == UnmemoizedIn(theThread, k)

(* C5: whatever lookups one classifier instance has served, a lookup of    *)
(* any sample returns the label the computation without caches gives for   *)
(* its stack, also when the label held is null (stack cache) or false      *)
(* (function-name cache).                                                  *)
InvC5 ==
    RecursivePath =>
        /\ returned.op = "categorizer" =>
              returned.value = Unmemoized(StackOfSample(returned.index))
        /\ \A i \in DOMAIN theThread.sampleTable.stack :
              sampleCategorizer(theThread, theClassifier, i).value
                  = Unmemoized(StackOfSample(i))

WitC5 ==
    /\ RecursivePath
    /\ returned.op = "categorizer"
    /\ StackOfSample(returned.index) \in DOMAIN Cached
    /\ returned.value = JsNull
    /\ "main" \in DOMAIN cache[0]
    /\ cache[0]["main"] = JsFalse
    /\ \E k \in DOMAIN Cached : Cached[k] = "paint.wait"
    /\ DOMAIN Cached = StackIndexes

(* C6: with a precomputed category column, sample i yields null when       *)
(* category[i] is null and otherwise the string at index category[i]; the  *)
(* classifier's caches stay empty (no table is walked).                    *)
InvC6 ==
    theThread.sampleTable.hasCategory =>
        /\ returned.op = "categorizer" =>
              LET category == theThread.sampleTable.category[returned.index]
              IN returned.value = IF category = nullIndex THEN JsNull
                                  ELSE strings[category + 1]
        /\ cache[0] = EmptyMap
        /\ stackCategoryCache[0] = EmptyMap

WitC6 ==
    /\ theThread.sampleTable.hasCategory
    /\ returned.op = "categorizer"
    /\ returned.value = "script.link"
    /\ \E i \in DOMAIN theThread.sampleTable.category :
          theThread.sampleTable.category[i] = nullIndex

----------------------------------------------------------------------------
(* The pipeline of summarizeProfileCategories: categorizeThreadData, then  *)
(* summarizeCategories.  The map over the threads is one step per thread;  *)
(* the steps are taken in any order, of which the code's is index order.   *)

NumThreads == 2
MaxSamples == 3
MaxHang == 1

(* A thread categorized by its stacks: the functions assigned to the stack *)
(* nodes in rotation from r, the nodes in one chain or all roots, one      *)
(* sample per stack node and two samples without a stack.                  *)
StackThread(r, chain) ==
    LET stack == SamplesOfEveryStack
    IN Thread([func |-> [k \in StackIndexes |-> (k + r) % Len(funcNames)],
               prefix |-> [k \in StackIndexes |-> IF chain THEN k - 1 ELSE noStack]],
              stack, [i \in DOMAIN stack |-> i % (MaxHang + 1)], FALSE, <<>>)

(* A thread that carries a category column. *)
ColumnThread(hangMs, category) ==
    Thread([func |-> [k \in StackIndexes |-> 0],
            prefix |-> [k \in StackIndexes |-> k - 1]],
           [i \in DOMAIN category |-> noStack], hangMs, TRUE, category)

(* A profile of NumThreads threads categorized by their stacks, or of one  *)
(* thread with a category column: up to MaxSamples samples, each with no   *)
(* category or one of the labels of the string table and a hang duration   *)
(* up to MaxHang.                                                          *)
Init ==
    /\ \/ \E r \in [0..(NumThreads - 1) -> Funcs] :
          \E chain \in [0..(NumThreads - 1) -> BOOLEAN] :
             profile = [t \in 0..(NumThreads - 1) |-> StackThread(r[t], chain[t])]
       \/ \E n \in 0..MaxSamples :
          \E hangMs \in [0..(n - 1) -> 0..MaxHang] :
          \E category \in [0..(n - 1) -> {nullIndex, 5, 6, 7, 8}] :
             profile = (0 :> ColumnThread(hangMs, category))
    /\ cache = [t \in DOMAIN profile |-> NewClassifier.cache]
    /\ stackCategoryCache = [t \in DOMAIN profile |-> NewClassifier.stackCategoryCache]
    /\ computeCalls = [t \in DOMAIN profile |-> NewClassifier.calls]
    /\ returned = Idle
    /\ rollingSummaries = <<>>
    /\ NoContent
    /\ threadCategories = <<>>
    /\ summaries = <<>>

(* The exception a classifier throws leaves profile.threads.map and       *)
(* summarizeProfileCategories: nothing of the pass runs after it.          *)
Thrown == returned.value = JsTypeError

MapThread(t) ==
    /\ ~Thrown
    /\ t \notin DOMAIN threadCategories
    /\ LET c == classifierOf(t)
           r == mapSamples(profile[t], classifier(c), 0, <<>>)
       IN /\ SetClassifier(c, r.st)
          /\ IF r.thrown
             THEN /\ returned' = [op |-> "summarizeProfileCategories",
                                  thread |-> t, index |-> Len(r.categories),
                                  name |-> "", value |-> JsTypeError]
                  /\ UNCHANGED threadCategories
             ELSE /\ threadCategories' = threadCategories @@ (t :> r.categories)
                  /\ UNCHANGED returned
    /\ UNCHANGED <<profile, summaries, rollingVars, contentVars>>

SummarizeCategories ==
    /\ DOMAIN threadCategories = DOMAIN profile
    /\ DOMAIN summaries = {}
    /\ summaries' = summarizeCategories(threadCategories)
    /\ UNCHANGED <<profile, cache, stackCategoryCache, computeCalls, returned,
                   threadCategories, rollingVars, contentVars>>

Next ==
    \/ \E t \in DOMAIN profile : MapThread(t)
    \/ SummarizeCategories

Spec == Init /\ [][Next]_vars

----------------------------------------------------------------------------
(* The category of sample i of a thread, from that thread's tables alone. *)
CategoryAlone(thread, i) ==
    IF thread.sampleTable.hasCategory
    THEN IF thread.sampleTable.category[i] = nullIndex THEN JsNull
         ELSE thread.stringTable[thread.sampleTable.category[i]]
    ELSE UnmemoizedIn(thread, thread.sampleTable.stack[i])

(* C7: the list categorizeThreadData holds for a thread has one entry per  *)
(* sample of the thread, in sample order, entry i being the category of    *)
(* sample i and sampleHangMs[i]; it is a function of the thread's own      *)
(* tables, whatever the other threads are and whichever were mapped first. *)
InvC7 ==
    \A t \in DOMAIN threadCategories :
        LET thread == profile[t]
            samples == DOMAIN thread.sampleTable.stack
        IN /\ Len(threadCategories[t]) = Cardinality(samples)
           /\ \A i \in samples :
                 threadCategories[t][i + 1] =
                     [category |-> CategoryAlone(thread, i),
                      hangMs |-> thread.sampleTable.sampleHangMs[i]]

WitC7 ==
    /\ DOMAIN threadCategories = DOMAIN profile
    /\ 1 \in DOMAIN profile
    /\ \E i \in 1..Len(threadCategories[0]) :
          /\ profile[0].sampleTable.stack[i - 1] = profile[1].sampleTable.stack[i - 1]
          /\ threadCategories[0][i].category = "paint.wait"
          /\ threadCategories[1][i].category = "script.parse"

Summarized == DOMAIN summaries # {}

LabelOf(datum) == IF datum.category = JsNull THEN "uncategorized" ELSE datum.category

(* Label is c or a sub-category of c. *)
Within(label, c) == label = c \/ IsPrefixOf(c \o ".", label)

RECURSIVE HangWithin(_, _, _)
HangWithin(data, c, i) ==
    IF i > Len(data) THEN 0
    ELSE (IF Within(LabelOf(data[i]), c) THEN data[i].hangMs ELSE 0)
         + HangWithin(data, c, i + 1)

RECURSIVE TotalHang(_, _)
TotalHang(data, i) ==
    IF i > Len(data) THEN 0 ELSE data[i].hangMs + TotalHang(data, i + 1)

(* C8: in a thread's summary the samples of label c are the sum of hangMs  *)
(* over the samples whose category (null taken as 'uncategorized') is c or *)
(* starts with c followed by a dot; every such c has a row; a parent's     *)
(* total is at least each of its sub-categories'.                          *)
InvC8 ==
    Summarized =>
        \A t \in DOMAIN summaries :
            LET rows == summaries[t]
                data == threadCategories[t]
            IN /\ \A i, j \in 1..Len(rows) :
                      rows[i].category = rows[j].category => i = j
               /\ \A i \in 1..Len(rows) :
                      /\ rows[i].samples = HangWithin(data, rows[i].category, 1)
                      /\ \E d \in 1..Len(data) :
                            Within(LabelOf(data[d]), rows[i].category)
               /\ \A d \in 1..Len(data) :
                      \A n \in 1..Len(LabelOf(data[d])) :
                          LET c == SubSeq(LabelOf(data[d]), 1, n)
                          IN Within(LabelOf(data[d]), c) =>
                                \E i \in 1..Len(rows) : rows[i].category = c
               /\ \A i, j \in 1..Len(rows) :
                      Within(rows[j].category, rows[i].category) =>
                          rows[i].samples >= rows[j].samples

WitC8 ==
    /\ Summarized
    /\ \E i, j, k \in 1..Len(summaries[0]) :
          /\ summaries[0][i].category = "script"
          /\ summaries[0][i].samples = 2
          /\ summaries[0][j].category = "script.link"
          /\ summaries[0][j].samples = 1
          /\ summaries[0][k].category = "uncategorized"
          /\ summaries[0][k].samples = 1
    /\ \E d \in 1..Len(threadCategories[0]) :
          threadCategories[0][d] = [category |-> "script", hangMs |-> 1]

RECURSIVE SamplesOfRows(_, _, _)
SamplesOfRows(rows, topLevelOnly, i) ==
    IF i > Len(rows) THEN 0
    ELSE (IF topLevelOnly /\ OccursIn(".", rows[i].category) THEN 0
          ELSE rows[i].samples)
         + SamplesOfRows(rows, topLevelOnly, i + 1)

RECURSIVE NumeratorsOfTopLevel(_, _)
NumeratorsOfTopLevel(rows, i) ==
    IF i > Len(rows) THEN 0
    ELSE (IF OccursIn(".", rows[i].category) THEN 0 ELSE rows[i].percentage.num)
         + NumeratorsOfTopLevel(rows, i + 1)

lowerCase == ".abcdefghijklmnopqrstuvwxyz"
upperCase == ".ABCDEFGHIJKLMNOPQRSTUVWXYZ"

(* The place of a character in the alphabet, the dot before the letters. *)
AlphabetRanks ==
    [ch \in {SubSeq(lowerCase, i, i) : i \in 1..Len(lowerCase)}
              \cup {SubSeq(upperCase, i, i) : i \in 1..Len(upperCase)} |->
        Min({i \in 1..Len(lowerCase) :
                SubSeq(lowerCase, i, i) = ch \/ SubSeq(upperCase, i, i) = ch})]

AlphabetRank(ch) == AlphabetRanks[ch]

RankAt(str, i) == AlphabetRank(SubSeq(str, i, i))

(* a comes before b in the dictionary: at the first place where they       *)
(* differ a has the earlier letter, or a ends there.                       *)
DictionaryBefore(a, b) ==
    \E n \in 0..Len(a) :
        /\ n <= Len(b)
        /\ \A i \in 1..n : RankAt(a, i) = RankAt(b, i)
        /\ \/ n = Len(a) /\ n < Len(b)
           \/ n < Len(a) /\ n < Len(b) /\ RankAt(a, n + 1) < RankAt(b, n + 1)

----------------------------------------------------------------------------
(* calculateRollingSummaries.  A thread's dates are an array of records,   *)
(* each with a sampleHangMs array aligned to the thread's samples.  The    *)
(* objects samples and percentage are kept as their entries in insertion   *)
(* order.                                                                  *)

(* const category = categories[j].category || 'uncategorized' *)
ownCategory(datum) ==
    IF datum.category = JsNull \/ datum.category = ""
    THEN "uncategorized" ELSE datum.category

addDateSampleRolledUp(samples, datum, hangMs) ==
    addPrefixes(samples, split(ownCategory(datum)), hangMs)

(* samples[category] = samples[category] || 0; samples[category] += ... *)
addDateSample(samples, datum, hangMs) ==
    addTo(samples, ownCategory(datum), hangMs)

(* The loop over j of one date, from sample j on: the samples object and   *)
(* the local totalTime.                                                    *)
RECURSIVE dateLoop(_, _, _, _)
dateLoop(sampleHangMs, categoriesOfThread, j, acc) ==
    IF j \notin DOMAIN sampleHangMs THEN acc
    ELSE dateLoop(sampleHangMs, categoriesOfThread, j + 1,
             [samples |-> addDateSample(acc.samples, categoriesOfThread[j + 1],
                                        sampleHangMs[j]),
              totalTime |-> acc.totalTime + sampleHangMs[j]])

(* for (let [key, time] of objectEntries(samples)) if (time > maxTime) ... *)
RECURSIVE maxOverEntries(_, _, _)
maxOverEntries(samples, k, maxTime) ==
    IF k > Len(samples) THEN maxTime
    ELSE maxOverEntries(samples, k + 1,
             IF samples[k].samples > maxTime THEN samples[k].samples ELSE maxTime)

(* The loop over the dates from date i on: the records pushed and maxTime. *)
(* The record pushed holds samples only; totalTime is a local of the loop  *)
(* body.                                                                   *)
RECURSIVE datesLoop(_, _, _, _)
datesLoop(dates, categoriesOfThread, i, acc) ==
    IF i \notin DOMAIN dates THEN acc
    ELSE LET d == dateLoop(dates[i].sampleHangMs, categoriesOfThread, 0,
                           [samples |-> <<>>, totalTime |-> 0])
         IN datesLoop(dates, categoriesOfThread, i + 1,
                [rollingSummary |-> Append(acc.rollingSummary, [samples |-> d.samples]),
                 maxTime |-> maxOverEntries(d.samples, 1, acc.maxTime)])

percentagesOfOwnMaximum(samples, maxTime) ==
    [k \in 1..Len(samples) |->
        [category |-> samples[k].category,
         percentage |-> divide(samples[k].samples,
                               maxOverEntries(samples, 1, 0))]]

(* mapObj(s.samples, count => count / maxTime) *)
percentagesOf(samples, maxTime) ==
    [k \in 1..Len(samples) |->
        [category |-> samples[k].category,
         percentage |-> divide(samples[k].samples, maxTime)]]

(* s.percentage = mapObj(...) for one record *)
withPercentage(s, maxTime) ==
    [samples |-> s.samples, percentage |-> percentagesOf(s.samples, maxTime)]

(* The callback of profile.threads.map for one thread. *)
rollingSummaryOf(thread, categoriesOfThread) ==
    LET r == datesLoop(thread.dates, categoriesOfThread, 0,
                       [rollingSummary |-> <<>>, maxTime |-> 0])
    IN [k \in 1..Len(r.rollingSummary) |->
           withPercentage(r.rollingSummary[k], r.maxTime)]

calculateRollingSummaries(threads, categoriesOfThreads) ==
    [t \in DOMAIN threads |-> rollingSummaryOf(threads[t], categoriesOfThreads[t])]

----------------------------------------------------------------------------
(* The whole of summarizeProfileCategories: categorizeThreadData, then     *)
(* calculateRollingSummaries, then summarizeCategories.                    *)

MaxDates == 2

(* The durations a sample may have on one date. *)
DateHangs == {0, 1, 2, 4}

(* The category columns of the first thread: indexes of 'dom', 'GC',       *)
(* 'script.link' and 'script' in the string table, or null.                *)
DateCategoryColumns ==
    {Table(<<7, 8>>), Table(<<7, 7>>), Table(<<nullIndex, 5>>), Table(<<5, 6>>)}

(* thread.dates *)
withDates(thread, dates) ==
    [f \in DOMAIN thread \cup {"dates"} |->
        IF f = "dates" THEN dates ELSE thread[f]]

RECURSIVE hangOverDates(_, _, _)
hangOverDates(dates, j, i) ==
    IF i \notin DOMAIN dates THEN 0
    ELSE dates[i].sampleHangMs[j] + hangOverDates(dates, j, i + 1)

(* A thread with a category column and dates: a sample's sampleHangMs is   *)
(* its duration over all dates.                                            *)
DatedThread(category, dates) ==
    withDates(ColumnThread([j \in DOMAIN category |-> hangOverDates(dates, j, 0)],
                           category),
              dates)

(* The second thread: one 'GC' sample of duration 1 on its only date. *)
OtherThread == DatedThread(Table(<<8>>), Table(<<[sampleHangMs |-> Table(<<1>>)]>>))

InitRolling ==
    /\ \E category \in DateCategoryColumns :
       \E n \in 0..MaxDates :
       \E hangs \in [0..(n - 1) -> [DOMAIN category -> DateHangs]] :
          profile = Table(<<DatedThread(category,
                                [i \in 0..(n - 1) |-> [sampleHangMs |-> hangs[i]]]),
                            OtherThread>>)
    /\ cache = [t \in DOMAIN profile |-> NewClassifier.cache]
    /\ stackCategoryCache = [t \in DOMAIN profile |-> NewClassifier.stackCategoryCache]
    /\ computeCalls = [t \in DOMAIN profile |-> NewClassifier.calls]
    /\ returned = Idle
    /\ threadCategories = <<>>
    /\ summaries = <<>>
    /\ rollingSummaries = <<>>
    /\ NoContent

CalculateRollingSummaries ==
    /\ DOMAIN threadCategories = DOMAIN profile
    /\ DOMAIN rollingSummaries = {}
    /\ rollingSummaries' = calculateRollingSummaries(profile, threadCategories)
    /\ UNCHANGED <<profile, cache, stackCategoryCache, computeCalls, returned,
                   threadCategories, summaries, contentVars>>

SummarizeAfterRolling ==
    /\ DOMAIN rollingSummaries = DOMAIN profile
    /\ SummarizeCategories

NextRolling ==
    \/ \E t \in DOMAIN profile : MapThread(t)
    \/ CalculateRollingSummaries
    \/ SummarizeAfterRolling

SpecRolling == InitRolling /\ [][NextRolling]_vars

----------------------------------------------------------------------------
Rolled == DOMAIN rollingSummaries # {}

(* The duration on one date of the samples from j on whose label is c. *)
RECURSIVE DateHangOfLabel(_, _, _, _)
DateHangOfLabel(sampleHangMs, data, c, j) ==
    IF j \notin DOMAIN sampleHangMs THEN 0
    ELSE (IF LabelOf(data[j + 1]) = c THEN sampleHangMs[j] ELSE 0)
         + DateHangOfLabel(sampleHangMs, data, c, j + 1)

RECURSIVE DateHang(_, _)
DateHang(sampleHangMs, j) ==
    IF j \notin DOMAIN sampleHangMs THEN 0
    ELSE sampleHangMs[j] + DateHang(sampleHangMs, j + 1)

RECURSIVE SumOfEntries(_, _)
SumOfEntries(entries, k) ==
    IF k > Len(entries) THEN 0
    ELSE entries[k].samples + SumOfEntries(entries, k + 1)

(* C11: a thread's rolling summary has one record per date, in date order; *)
(* in the record of a date the labels are the own labels of the samples    *)
(* (null taken as 'uncategorized'), each once, and the value of label c is *)
(* the sum of the date's sampleHangMs over the samples labelled exactly c, *)
(* so the values of a record add up to the date's total duration.          *)
InvC11 ==
    Rolled =>
        \A t \in DOMAIN rollingSummaries :
            LET dates == profile[t].dates
                data == threadCategories[t]
                records == rollingSummaries[t]
            IN /\ Len(records) = Cardinality(DOMAIN dates)
               /\ \A i \in DOMAIN dates :
                     LET entries == records[i + 1].samples
                         hangs == dates[i].sampleHangMs
                     IN /\ \A k, l \in 1..Len(entries) :
                              entries[k].category = entries[l].category => k = l
                        /\ \A k \in 1..Len(entries) :
                              /\ entries[k].samples =
                                     DateHangOfLabel(hangs, data, entries[k].category, 0)
                              /\ \E j \in DOMAIN hangs :
                                     LabelOf(data[j + 1]) = entries[k].category
                        /\ \A j \in DOMAIN hangs :
                              \E k \in 1..Len(entries) :
                                  entries[k].category = LabelOf(data[j + 1])
                        /\ SumOfEntries(entries, 1) = DateHang(hangs, 0)

(* Two dates; on one, a 'script.link' sample of 1 and a 'script' sample of *)
(* 2 stay apart; on one, a sample without category counts as               *)
(* 'uncategorized'.                                                        *)
WitC11 ==
    /\ Rolled
    /\ \E t \in DOMAIN rollingSummaries :
          /\ Len(rollingSummaries[t]) = 2
          /\ rollingSummaries[t][2].samples =
                 <<[category |-> "script.link", samples |-> 1],
                   [category |-> "script", samples |-> 2]>>
          /\ rollingSummaries[t][1].samples # rollingSummaries[t][2].samples

(* C12: every record of a rolling summary holds the total duration of its  *)
(* date beside the durations per category.                                 *)
CexC12 ==
    Rolled =>
        \A t \in DOMAIN rollingSummaries :
            \A k \in 1..Len(rollingSummaries[t]) :
                /\ "totalTime" \in DOMAIN rollingSummaries[t][k]
                /\ rollingSummaries[t][k].totalTime =
                       DateHang(profile[t].dates[k - 1].sampleHangMs, 0)

(* The largest duration of one category on one date of a thread. *)
LargestOfThread(t) ==
    LET values == {0} \cup
            {DateHangOfLabel(profile[t].dates[i].sampleHangMs, threadCategories[t],
                             LabelOf(threadCategories[t][j + 1]), 0) :
                 i \in DOMAIN profile[t].dates,
                 j \in DOMAIN profile[t].sampleTable.stack}
    IN CHOOSE m \in values : \A v \in values : v <= m

(* C13: in a thread's rolling summary every percentage is the duration of  *)
(* its category on its date over the largest duration of one category on   *)
(* one date of that thread; when that is positive no percentage exceeds 1  *)
(* and one is exactly 1.                                                   *)
InvC13 ==
    Rolled =>
        \A t \in DOMAIN rollingSummaries :
            LET records == rollingSummaries[t]
                largest == LargestOfThread(t)
            IN /\ \A r \in 1..Len(records) :
                     /\ Len(records[r].percentage) = Len(records[r].samples)
                     /\ \A k \in 1..Len(records[r].samples) :
                           /\ records[r].percentage[k].category =
                                  records[r].samples[k].category
                           /\ records[r].percentage[k].percentage =
                                  [num |-> records[r].samples[k].samples,
                                   den |-> largest]
                           /\ records[r].samples[k].samples <= largest
               /\ largest > 0 =>
                     \E r \in 1..Len(records) :
                         \E k \in 1..Len(records[r].percentage) :
                             records[r].percentage[k].percentage =
                                 [num |-> largest, den |-> largest]

(* The example in proportion: {dom: 2, GC: 1} then {dom: 4} give 2/4, 1/4  *)
(* and 4/4, while the other thread divides by its own largest value, 1.    *)
WitC13 ==
    /\ Rolled
    /\ Len(rollingSummaries[0]) = 2
    /\ rollingSummaries[0][1].percentage =
           <<[category |-> "dom", percentage |-> [num |-> 2, den |-> 4]],
             [category |-> "GC", percentage |-> [num |-> 1, den |-> 4]]>>
    /\ rollingSummaries[0][2].percentage[1] =
           [category |-> "dom", percentage |-> [num |-> 4, den |-> 4]]
    /\ rollingSummaries[1][1].percentage =
           <<[category |-> "GC", percentage |-> [num |-> 1, den |-> 1]]>>

(* The number a division gives is zero. *)
IsZero(fraction) == fraction.den # 0 /\ fraction.num = 0

(* C14: a percentage whose divisor is zero is zero, in the category        *)
(* summary and in the rolling summary.                                     *)
CexC14 ==
    /\ \A t \in DOMAIN summaries :
          \A i \in 1..Len(summaries[t]) :
              summaries[t][i].percentage.den = 0 =>
                  IsZero(summaries[t][i].percentage)
    /\ \A t \in DOMAIN rollingSummaries :
          \A r \in 1..Len(rollingSummaries[t]) :
              \A k \in 1..Len(rollingSummaries[t][r].percentage) :
                  rollingSummaries[t][r].percentage[k].percentage.den = 0 =>
                      IsZero(rollingSummaries[t][r].percentage[k].percentage)

----------------------------------------------------------------------------
(* summarizeProfileCategories on a profile one of whose threads has an     *)
(* index that names no entry of its tables.                                *)

Faults == {"none", "stack", "func", "name", "prefix"}

(* The thread StackThread(r, chain) with one index replaced: the stack of  *)
(* sample 1, the function of stack node 0, the name of that function, or   *)
(* the prefix of stack node 0.                                             *)
FaultyThread(fault, r, chain) ==
    LET thread == StackThread(r, chain)
    IN CASE fault = "none" -> thread
         [] fault = "stack" ->
               [thread EXCEPT !.sampleTable.stack[1] = MaxStack]
         [] fault = "func" ->
               [thread EXCEPT !.stackTable.func[0] = Len(funcNames)]
         [] fault = "name" ->
               [thread EXCEPT !.funcTable.name[thread.stackTable.func[0]] =
                                  Len(strings)]
         [] fault = "prefix" ->
               [thread EXCEPT !.stackTable.prefix[0] = MaxStack]

(* One date that holds the thread's samples. *)
withOneDate(thread) ==
    withDates(thread, Table(<<[sampleHangMs |-> thread.sampleTable.sampleHangMs]>>))

InitFaulty ==
    /\ \E where \in {0, 1} :
       \E fault \in Faults :
       \E r \in [{0, 1} -> Funcs] :
       \E chain \in [{0, 1} -> BOOLEAN] :
          profile = [t \in {0, 1} |->
                        withOneDate(FaultyThread(IF t = where THEN fault ELSE "none",
                                                 r[t], chain[t]))]
    /\ cache = [t \in DOMAIN profile |-> NewClassifier.cache]
    /\ stackCategoryCache = [t \in DOMAIN profile |-> NewClassifier.stackCategoryCache]
    /\ computeCalls = [t \in DOMAIN profile |-> NewClassifier.calls]
    /\ returned = Idle
    /\ threadCategories = <<>>
    /\ summaries = <<>>
    /\ rollingSummaries = <<>>
    /\ NoContent

SpecFaulty == InitFaulty /\ [][NextRolling]_vars

(* The walk of the stack classifier from stack k meets no index without an *)
(* entry.                                                                  *)
RECURSIVE Resolves(_, _)
Resolves(thread, k) ==
    \/ k = noStack
    \/ k = nullIndex
    \/ /\ k \in DOMAIN thread.stackTable.func
       /\ thread.stackTable.func[k] \in DOMAIN thread.funcTable.name
       /\ thread.funcTable.name[thread.stackTable.func[k]]
              \in DOMAIN thread.stringTable
       /\ \/ OwnCategoryIn(thread, k) \notin {JsFalse, "wait"}
          \/ Resolves(thread, thread.stackTable.prefix[k])

(* C15: the pass never stops on an exception: every thread gets its list,  *)
(* in which a sample whose walk meets an index without an entry has no     *)
(* category and every other sample has the category of its stack.          *)
CexC15 ==
    /\ ~Thrown
    /\ \A t \in DOMAIN threadCategories :
          \A i \in DOMAIN profile[t].sampleTable.stack :
              threadCategories[t][i + 1].category =
                  IF Resolves(profile[t], profile[t].sampleTable.stack[i])
                  THEN UnmemoizedIn(profile[t], profile[t].sampleTable.stack[i])
                  ELSE JsNull

----------------------------------------------------------------------------
(* parseCallTreeFilters and stringifyCallTreeFilters of                    *)
(* src/src/content/call-tree-filters.js.                                   *)

(* str.split(sep) and parts.join(sep), sep one character *)
RECURSIVE splitOn(_, _)
splitOn(str, sep) ==
    LET seps == {i \in 1..Len(str) : SubSeq(str, i, i) = sep}
    IN IF seps = {} THEN <<str>>
       ELSE <<SubSeq(str, 1, Min(seps) - 1)>>
                \o splitOn(SubSeq(str, Min(seps) + 1, Len(str)), sep)

RECURSIVE joinWith(_, _)
joinWith(parts, sep) ==
    IF Len(parts) = 0 THEN ""
    ELSE IF Len(parts) = 1 THEN parts[1]
    ELSE parts[1] \o sep \o joinWith(Tail(parts), sep)

(* The encoding of arrays of function indexes in a URL, of module          *)
(* uintarray-encoding: two encoded values and the arrays they stand for.   *)
uintArrays == [a |-> <<0>>, b |-> <<1, 2>>]

stringToUintArray(val) == uintArrays[val]

uintArrayToString(array) ==
    CHOOSE val \in DOMAIN uintArrays : uintArrays[val] = array

(* The callback of map in parseCallTreeFilters: the filter of one segment, *)
(* undefined when the type is not known.                                   *)
parseSegment(segment) ==
    LET pieces == splitOn(segment, "-")
        type == pieces[1]
    IN CASE type = "prefix" ->
              <<[type |-> "prefix", prefixFuncs |-> stringToUintArray(pieces[2])]>>
         [] type = "postfix" ->
              <<[type |-> "postfix", postfixFuncs |-> stringToUintArray(pieces[2])]>>
         [] OTHER -> <<>>

(* .map(...).filter(f => f): the filters of the segments from i on, those  *)
(* that are undefined left out.                                            *)
RECURSIVE parseSegments(_, _)
parseSegments(segments, i) ==
    IF i > Len(segments) THEN <<>>
    ELSE parseSegment(segments[i]) \o parseSegments(segments, i + 1)

parseCallTreeFilters(stringValue) ==
    IF stringValue = "" THEN [threw |-> FALSE, value |-> <<>>]
    ELSE [threw |-> FALSE,
          value |-> parseSegments(splitOn(stringValue, "~"), 1)]

(* The callback of map in stringifyCallTreeFilters. *)
stringifyFilter(filter) ==
    CASE filter.type = "prefix" ->
            [threw |-> FALSE,
             value |-> "prefix-" \o uintArrayToString(filter.prefixFuncs)]
      [] filter.type = "postfix" ->
            [threw |-> FALSE,
             value |-> "postfix-" \o uintArrayToString(filter.postfixFuncs)]
      [] OTHER -> [threw |-> TRUE, value |-> "unknown filter type"]

stringifyCallTreeFilters(arrayValue) ==
    LET strs == [i \in 1..Len(arrayValue) |-> stringifyFilter(arrayValue[i])]
    IN IF \E i \in 1..Len(strs) : strs[i].threw
       THEN [threw |-> TRUE, value |-> "unknown filter type"]
       ELSE [threw |-> FALSE,
             value |-> joinWith([i \in 1..Len(strs) |-> strs[i].value], "~")]

MaxFilters == 3

(* The segments of a callTreeFilters query value and the filters of a      *)
(* list, of known and of unknown type.                                     *)
Segments == {"prefix-a", "postfix-b", "other-a", "other"}

Filters ==
    {[type |-> "prefix", prefixFuncs |-> uintArrays.a],
     [type |-> "prefix", prefixFuncs |-> uintArrays.b],
     [type |-> "postfix", postfixFuncs |-> uintArrays.a],
     [type |-> "other", otherFuncs |-> uintArrays.b]}

ListsOf(S) == UNION {[1..n -> S] : n \in 0..MaxFilters}

InitFilters ==
    /\ profile = <<>>
    /\ cache = <<>>
    /\ stackCategoryCache = <<>>
    /\ computeCalls = <<>>
    /\ returned = Idle
    /\ threadCategories = <<>>
    /\ summaries = <<>>
    /\ rollingSummaries = <<>>
    /\ NoContent

ParseCallTreeFilters(stringValue) ==
    /\ returned' = [op |-> "parseCallTreeFilters", arg |-> stringValue,
                    result |-> parseCallTreeFilters(stringValue)]
    /\ UNCHANGED <<profile, cache, stackCategoryCache, computeCalls,
                   threadCategories, summaries, rollingVars, contentVars>>

StringifyCallTreeFilters(arrayValue) ==
    /\ returned' = [op |-> "stringifyCallTreeFilters", arg |-> arrayValue,
                    result |-> stringifyCallTreeFilters(arrayValue)]
    /\ UNCHANGED <<profile, cache, stackCategoryCache, computeCalls,
                   threadCategories, summaries, rollingVars, contentVars>>

NextFilters ==
    \/ \E segments \in ListsOf(Segments) :
           ParseCallTreeFilters(joinWith(segments, "~"))
    \/ \E arrayValue \in ListsOf(Filters) :
           StringifyCallTreeFilters(arrayValue)

SpecFilters == InitFilters /\ [][NextFilters]_vars

(* A type that is neither 'prefix' nor 'postfix'. *)
UnknownType(type) == type \notin {"prefix", "postfix"}

(* The types of the segments of a query value: what comes before the first *)
(* dash of each stretch between tildes.                                    *)
TypesIn(stringValue) ==
    LET segments == splitOn(stringValue, "~")
    IN {splitOn(segments[i], "-")[1] : i \in 1..Len(segments)}

(* C16: a query value with a segment of unknown type makes                 *)
(* parseCallTreeFilters fail, and a list with a filter of unknown type     *)
(* makes stringifyCallTreeFilters fail; neither returns a result without   *)
(* that filter.                                                            *)
CexC16 ==
    /\ returned.op = "parseCallTreeFilters" =>
          ((returned.arg # "" /\ \E type \in TypesIn(returned.arg) : UnknownType(type))
              => returned.result.threw)
    /\ returned.op = "stringifyCallTreeFilters" =>
          ((\E i \in 1..Len(returned.arg) : UnknownType(returned.arg[i].type))
              => returned.result.threw)

----------------------------------------------------------------------------
(* C17: on a thread whose prefix links have no cycle, whatever lookups its *)
(* classifier instance has served, computeCategory has run on stack        *)
(* indexes of the table only, once on each, and exactly on those that the  *)
(* stack cache holds, those held with null included: no lookup, direct or  *)
(* through the walk of a descendant, computes an index a second time, so   *)
(* the calls made for all the samples are at most the stack nodes.         *)
InvC17 ==
    LET calls == computeCalls[0]
    IN /\ DOMAIN calls \subseteq StackIndexes
       /\ \A k \in DOMAIN calls : calls[k] = 1
       /\ DOMAIN calls = DOMAIN stackCategoryCache[0]

(* Every stack node has been computed, each once; a node held with null   *)
(* was reached through a child that has no category of its own, and the    *)
(* last lookup, of a sample with a stack, returned null.                   *)
WitC17 ==
    /\ ~theThread.sampleTable.hasCategory
    /\ DOMAIN computeCalls[0] = StackIndexes
    /\ \E k, j \in StackIndexes :
          /\ theThread.stackTable.prefix[j] = k
          /\ stackCategoryCache[0][k] = JsNull
          /\ stackCategoryCache[0][j] = JsNull
    /\ returned.op = "categorizer"
    /\ returned.value = JsNull
    /\ theThread.sampleTable.stack[returned.index] \in StackIndexes

----------------------------------------------------------------------------
(* ThreadStackGraph of src/src/content/call-tree-filters.js: one component *)
(* and the animation-frame callbacks its window holds.  renders,           *)
(* rendersSinceFrame, frames and framesWithoutCanvas count what happened;  *)
(* the component does not read them.                                       *)

MaxRenders == 8

(* The component after its constructor; this.refs.canvas is set by the     *)
(* first render and removed when the component is unmounted.               *)
NewGraph ==
    [mounted |-> TRUE, requestedAnimationFrame |-> FALSE, callbacks |-> 0,
     canvas |-> FALSE, unmounted |-> FALSE, drawCanvas |-> 0,
     renders |-> 0, rendersSinceFrame |-> 0, frames |-> 0,
     framesWithoutCanvas |-> 0]

scheduleDrawAlways(g) ==
    [g EXCEPT !.requestedAnimationFrame = TRUE, !.callbacks = @ + 1]

(* _scheduleDraw up to the call of window.requestAnimationFrame *)
scheduleDraw(g) ==
    IF ~g.requestedAnimationFrame
    THEN [g EXCEPT !.requestedAnimationFrame = TRUE, !.callbacks = @ + 1]
    ELSE g

(* The callback handed to window.requestAnimationFrame *)
animationFrameCallback(g) ==
    LET cleared == [g EXCEPT !.requestedAnimationFrame = FALSE]
    IN IF cleared.canvas
       THEN [cleared EXCEPT !.drawCanvas = @ + 1]
       ELSE cleared

InitGraph ==
    /\ profile = <<>>
    /\ cache = <<>>
    /\ stackCategoryCache = <<>>
    /\ computeCalls = <<>>
    /\ returned = Idle
    /\ threadCategories = <<>>
    /\ summaries = <<>>
    /\ rollingSummaries = <<>>
    /\ graph = NewGraph
    /\ urlState = NoUrlState

(* render(), and the canvas it puts in the document *)
Render ==
    /\ ~graph.unmounted
    /\ graph.renders < MaxRenders
    /\ graph' = [scheduleDraw(graph) EXCEPT !.canvas = TRUE,
                                            !.renders = @ + 1,
                                            !.rendersSinceFrame = @ + 1]
    /\ UNCHANGED <<profile, cache, stackCategoryCache, computeCalls, returned,
                   threadCategories, summaries, rollingVars, urlState>>

(* The window runs one of the callbacks it holds. *)
AnimationFrame ==
    /\ graph.callbacks > 0
    /\ graph' = [animationFrameCallback([graph EXCEPT !.callbacks = @ - 1])
                     EXCEPT !.frames = @ + 1,
                            !.framesWithoutCanvas =
                                @ + (IF graph.canvas THEN 0 ELSE 1),
                            !.rendersSinceFrame = 0]
    /\ UNCHANGED <<profile, cache, stackCategoryCache, computeCalls, returned,
                   threadCategories, summaries, rollingVars, urlState>>

(* The component is unmounted: its refs are gone and it renders no more. *)
Unmount ==
    /\ graph.canvas
    /\ graph' = [graph EXCEPT !.canvas = FALSE, !.unmounted = TRUE]
    /\ UNCHANGED <<profile, cache, stackCategoryCache, computeCalls, returned,
                   threadCategories, summaries, rollingVars, urlState>>

NextGraph == Render \/ AnimationFrame \/ Unmount

SpecGraph == InitGraph /\ [][NextGraph]_vars

(* C18: the window never holds more than one callback of the component,    *)
(* and holds one exactly while the flag is set; renders made since the     *)
(* last callback ran, however many, are covered by the one callback held;  *)
(* every callback that ran drew the canvas once, except those that ran     *)
(* when the canvas was gone, which drew nothing.                           *)
InvC18 ==
    /\ graph.callbacks \in {0, 1}
    /\ graph.requestedAnimationFrame <=> graph.callbacks = 1
    /\ graph.rendersSinceFrame > 0 => graph.callbacks = 1
    /\ graph.drawCanvas + graph.framesWithoutCanvas = graph.frames
    /\ graph.frames <= graph.renders

(* Three renders while one callback was held drew once; two more renders   *)
(* after it led to a second callback, which ran after the unmount and drew *)
(* nothing.                                                                *)
WitC18 ==
    /\ graph.renders = 5
    /\ graph.frames = 2
    /\ graph.drawCanvas = 1
    /\ graph.framesWithoutCanvas = 1
    /\ graph.unmounted
    /\ ~graph.requestedAnimationFrame

----------------------------------------------------------------------------
(* The callTreeFilters reducer of src/src/content/reducers/url-state.js.   *)
(* Objects and arrays live in a heap, a function from addresses to values, *)
(* so that whether a call changes an object that existed before it is a    *)
(* matter of the heap and not of the values.  A state object is its        *)
(* fields, thread index to address of an array; an array is its items.     *)

MaxActions == 4

ThreadIndexes == {0, 1}

(* The actions dispatched: the two the reducer knows, for either thread,   *)
(* and one of another reducer.                                             *)
Actions ==
    {[type |-> "ADD_CALL_TREE_FILTER", threadIndex |-> t, filter |-> f] :
         t \in ThreadIndexes,
         f \in {[type |-> "prefix", prefixFuncs |-> uintArrays.a],
                [type |-> "postfix", postfixFuncs |-> uintArrays.b]}}
    \cup
    {[type |-> "POP_CALL_TREE_FILTERS", threadIndex |-> t,
      firstRemovedFilterIndex |-> n] : t \in ThreadIndexes, n \in 0..2}
    \cup
    {[type |-> "CHANGE_INVERT_CALLSTACK", invertCallstack |-> TRUE]}

(* A new object or array: the heap with it, at the next address. *)
newAddress(heap) == Cardinality(DOMAIN heap)
allocate(heap, value) == heap @@ (newAddress(heap) :> value)

(* state[threadIndex] || [] *)
filtersOf(heap, state, threadIndex) ==
    IF threadIndex \in DOMAIN heap[state].fields
    THEN heap[heap[state].fields[threadIndex]].items
    ELSE <<>>

(* oldFilters.slice(0, end), end not negative *)
slice(items, end) ==
    SubSeq(items, 1, IF end < Len(items) THEN end ELSE Len(items))

(* Object.assign({}, state, {[threadIndex]: filters}): the array and the   *)
(* object are new.                                                         *)
assign(u, threadIndex, filters) ==
    LET array == newAddress(u.heap)
        heap1 == allocate(u.heap, [items |-> filters])
        fields == heap1[u.state].fields
        object == [fields |-> [t \in DOMAIN fields \cup {threadIndex} |->
                                  IF t = threadIndex THEN array ELSE fields[t]]]
    IN [heap |-> allocate(heap1, object), state |-> newAddress(heap1)]

(* oldFilters.push(filter) on the array the state holds, in place *)
addCallTreeFilterInPlace(u, threadIndex, filter) ==
    IF threadIndex \in DOMAIN u.heap[u.state].fields
    THEN [u EXCEPT !.heap[u.heap[u.state].fields[threadIndex]].items =
                       Append(@, filter)]
    ELSE assign(u, threadIndex, <<filter>>)

(* case 'ADD_CALL_TREE_FILTER' *)
addCallTreeFilter(u, threadIndex, filter) ==
    assign(u, threadIndex,
           Append(filtersOf(u.heap, u.state, threadIndex), filter))

(* case 'POP_CALL_TREE_FILTERS' *)
popCallTreeFilters(u, threadIndex, firstRemovedFilterIndex) ==
    assign(u, threadIndex,
           slice(filtersOf(u.heap, u.state, threadIndex), firstRemovedFilterIndex))

(* The reducer on the heap and state object of u: the heap after the call  *)
(* and the state object returned.                                          *)
callTreeFilters(u, action) ==
    CASE action.type = "ADD_CALL_TREE_FILTER" ->
            addCallTreeFilter(u, action.threadIndex, action.filter)
      [] action.type = "POP_CALL_TREE_FILTERS" ->
            popCallTreeFilters(u, action.threadIndex,
                               action.firstRemovedFilterIndex)
      [] OTHER -> u

(* getCallTreeFilters *)
getCallTreeFilters(u, threadIndex) == filtersOf(u.heap, u.state, threadIndex)

(* The store after its first call of the reducer, which makes the default  *)
(* state {}.  before and action keep the heap and state object of before   *)
(* the last call and its action; dispatched counts the calls.              *)
InitReducer ==
    /\ profile = <<>>
    /\ cache = <<>>
    /\ stackCategoryCache = <<>>
    /\ computeCalls = <<>>
    /\ returned = Idle
    /\ threadCategories = <<>>
    /\ summaries = <<>>
    /\ rollingSummaries = <<>>
    /\ graph = NoGraph
    /\ urlState = [created |-> TRUE,
                   heap |-> allocate(<<>>, [fields |-> <<>>]), state |-> 0,
                   before |-> [heap |-> <<>>, state |-> 0],
                   action |-> [type |-> "@@redux/INIT"],
                   dispatched |-> 0]

Dispatch(action) ==
    /\ urlState.dispatched < MaxActions
    /\ LET u == callTreeFilters([heap |-> urlState.heap, state |-> urlState.state],
                                action)
       IN urlState' = [created |-> TRUE, heap |-> u.heap, state |-> u.state,
                       before |-> [heap |-> urlState.heap,
                                   state |-> urlState.state],
                       action |-> action,
                       dispatched |-> urlState.dispatched + 1]
    /\ UNCHANGED <<profile, cache, stackCategoryCache, computeCalls, returned,
                   threadCategories, summaries, rollingVars, graph>>

NextReducer == \E action \in Actions : Dispatch(action)

SpecReducer == InitReducer /\ [][NextReducer]_vars

----------------------------------------------------------------------------
(* The filter list of a thread in the state before the last action and in  *)
(* the state after it.                                                     *)
ListBefore(t) ==
    IF t \in DOMAIN urlState.before.heap[urlState.before.state].fields
    THEN urlState.before.heap[
             urlState.before.heap[urlState.before.state].fields[t]].items
    ELSE <<>>

ListAfter(t) ==
    IF t \in DOMAIN urlState.heap[urlState.state].fields
    THEN urlState.heap[urlState.heap[urlState.state].fields[t]].items
    ELSE <<>>

FirstEntries(list, n) == [i \in 1..(IF n < Len(list) THEN n ELSE Len(list)) |-> list[i]]

(* C19: after every action, the list of the action's thread is the list of *)
(* before with the filter appended (ADD_CALL_TREE_FILTER) or cut down to   *)
(* its first firstRemovedFilterIndex entries (POP_CALL_TREE_FILTERS), the  *)
(* list of every other thread is as before, an action of another type      *)
(* returns the state object it was given, and every object and array that  *)
(* existed before the action holds what it held.                           *)
InvC19 ==
    urlState.dispatched > 0 =>
        LET action == urlState.action
        IN /\ action.type = "ADD_CALL_TREE_FILTER" =>
                 /\ ListAfter(action.threadIndex) =
                        ListBefore(action.threadIndex) \o <<action.filter>>
                 /\ \A t \in ThreadIndexes \ {action.threadIndex} :
                        ListAfter(t) = ListBefore(t)
           /\ action.type = "POP_CALL_TREE_FILTERS" =>
                 /\ ListAfter(action.threadIndex) =
                        FirstEntries(ListBefore(action.threadIndex),
                                     action.firstRemovedFilterIndex)
                 /\ \A t \in ThreadIndexes \ {action.threadIndex} :
                        ListAfter(t) = ListBefore(t)
           /\ action.type \notin {"ADD_CALL_TREE_FILTER", "POP_CALL_TREE_FILTERS"} =>
                 /\ urlState.state = urlState.before.state
                 /\ \A t \in ThreadIndexes : ListAfter(t) = ListBefore(t)
           /\ \A address \in DOMAIN urlState.before.heap :
                 urlState.heap[address] = urlState.before.heap[address]

(* A list of two filters of thread 0 was cut down to its first while       *)
(* thread 1 kept its filter.                                               *)
WitC19 ==
    /\ urlState.dispatched > 0
    /\ urlState.action.type = "POP_CALL_TREE_FILTERS"
    /\ urlState.action.threadIndex = 0
    /\ Len(ListBefore(0)) = 2
    /\ Len(ListAfter(0)) = 1
    /\ Len(ListAfter(1)) = 1

====
